---------------------------- MODULE Spec2Model ----------------------------
(***************************************************************************)
(* Model of the express-manager program: the SMS extractor parse_sms and   *)
(* the two record stores (express_manager_complete.py: SQLite table;       *)
(* express_manager_session.py: Streamlit session state).                   *)
(*                                                                         *)
(* A Python str is a sequence of characters.  Every CJK character of the   *)
(* source patterns is written as an ASCII token (its pinyin):              *)
(*   kuai di zhan = "courier station" suffix, kuai di = tracking marker,   *)
(*   yi3 dao / song zhi / cun fang zai / dao da = arrival markers,         *)
(*   yi4 zhan, dai shou dian, cai niao, feng chao, su di yi_e = suffixes,  *)
(*   qing ping .. qian wang | ling qu = code pattern 1,                    *)
(*   qu jian ma = code pattern 2, yan zheng ma = code pattern 3,           *)
(*   ping .. qu jian = code pattern 4,                                     *)
(*   fw_colon fw_comma fw_period = the full-width glyphs.                  *)
(* A Python dict is a function whose domain is its set of keys.            *)
(***************************************************************************)
EXTENDS Integers, Sequences, FiniteSets, TLC

VARIABLES
    variant,      \* which program runs: "durable" (complete.py) or "ephemeral" (session.py)
    packages,     \* the packages table in rowid order / st.session_state.packages
    next_id,      \* sqlite_sequence + 1 / st.session_state.next_id
    now,          \* the wall clock read by datetime.now(), in seconds
    last,         \* the last operation run and what it returned
    marked,       \* ids for which mark_as_picked_up has returned True
    issued,       \* ids returned by add_package since the store was last replaced
    returned,     \* every id add_package has returned in this session
    sms,          \* the text handed to parse_sms
    parsed        \* what parse_sms returned for sms, or NotRun

vars == <<variant, packages, next_id, now, last, marked, issued, returned, sms, parsed>>

-----------------------------------------------------------------------------
(* Bounds of the model *)

MaxTime == 1
MaxImport == 2
MaxSegs == 3
MaxId == 3

-----------------------------------------------------------------------------
(* Python values *)

None == [type |-> "None"]
NotRun == [type |-> "NotRun"]
EmptyStr == << >>
EmptyDict == << >>

Max(S) == CHOOSE x \in S : \A y \in S : y <= x
Min(S) == CHOOSE x \in S : \A y \in S : x <= y

\* dict.get(key, default)
Get(d, key, default) == IF key \in DOMAIN d THEN d[key] ELSE default

\* d[key] = value on a dict
Put(d, key, value) ==
    [k \in DOMAIN d \cup {key} |-> IF k = key THEN value ELSE d[k]]

-----------------------------------------------------------------------------
(* Character classes of the patterns *)

Digits == {"0", "2", "6", "8"}
Letters == {"A", "z"}
AlphaNum == Letters \cup Digits
Whitespace == {" ", "\n"}
Colons == {":", "fw_colon"}
ColonOrSpace == Colons \cup Whitespace
LocationExcluded == {"fw_comma", ",", "fw_period", ".", "qing"}

CodeMin == 4
CodeMax == 8

\* the literal lit occurs in s at position i (1-based)
LitAt(s, i, lit) ==
    /\ i >= 1
    /\ i + Len(lit) - 1 <= Len(s)
    /\ SubSeq(s, i, i + Len(lit) - 1) = lit

\* length of the longest run of characters of class cls (or, with neg, of
\* characters outside cls) that starts at position i
RunLen(s, i, cls, neg) ==
    LET ok(j) == IF neg THEN s[j] \notin cls ELSE s[j] \in cls
        stops == {j \in i..Len(s) : ~ok(j)}
    IN  IF i > Len(s) THEN 0
        ELSE IF stops = {} THEN Len(s) - i + 1
        ELSE Min(stops) - i

\* the alternatives of alts (a sequence of literals) that occur at i
AltsAt(s, i, alts) == {a \in 1..Len(alts) : LitAt(s, i, alts[a])}

\* str.strip()
strip(s) ==
    LET keep == {j \in 1..Len(s) : s[j] \notin Whitespace}
    IN  IF keep = {} THEN EmptyStr ELSE SubSeq(s, Min(keep), Max(keep))

\* re.search: tries[i] is the match attempt at position i; the result is the
\* match at the leftmost position where the attempt succeeds
re_search(tries) ==
    LET hits == {i \in DOMAIN tries : tries[i] # None}
    IN  IF hits = {} THEN None ELSE tries[Min(hits)]

-----------------------------------------------------------------------------
(* The patterns of parse_sms, each as a match attempt at one position *)

\* kuai di [: fw_colon] \*? (\d+)
tracking_pattern(s, i) ==
    LET p == i + 2
        q == IF p + 1 <= Len(s) /\ s[p + 1] = "*"
                  /\ RunLen(s, p + 2, Digits, FALSE) >= 1
             THEN p + 2 ELSE p + 1
        n == RunLen(s, q, Digits, FALSE)
    IN  IF LitAt(s, i, <<"kuai", "di">>) /\ p <= Len(s) /\ s[p] \in Colons /\ n >= 1
        THEN [group1 |-> SubSeq(s, q, q + n - 1)]
        ELSE None

LocationMarkers ==
    << <<"yi3", "dao">>, <<"song", "zhi">>, <<"cun", "fang", "zai">>, <<"dao", "da">> >>

LocationSuffixes ==
    << <<"kuai", "di", "zhan">>, <<"yi4", "zhan">>, <<"dai", "shou", "dian">>,
       <<"cai", "niao">>, <<"feng", "chao">>, <<"su", "di", "yi_e">> >>

\* (?:markers)([^excluded]+(?:suffixes)): the run is greedy and gives back
\* characters until a suffix follows it
location_pattern(s, i) ==
    LET ms == AltsAt(s, i, LocationMarkers)
        \* a match with marker m: the longest run n >= 1 followed by a suffix
        runs(m) ==
            LET p == i + Len(LocationMarkers[m])
                k == RunLen(s, p, LocationExcluded, TRUE)
            IN  {n \in 1..k : AltsAt(s, p + n, LocationSuffixes) # {}}
        good == {m \in ms : runs(m) # {}}
    IN  IF good = {} THEN None
        ELSE LET m == Min(good)
                 p == i + Len(LocationMarkers[m])
                 n == Max(runs(m))
                 f == Min(AltsAt(s, p + n, LocationSuffixes))
             IN  [group1 |-> SubSeq(s, p, p + n + Len(LocationSuffixes[f]) - 1)]

\* prefix ([A-Za-z0-9]{4,8}) (?:tails): the code is greedy and gives back
\* characters until one of the tails follows it
CodeBetween(s, i, prefix, tails) ==
    LET p == i + Len(prefix)
        k == RunLen(s, p, AlphaNum, FALSE)
        ns == {n \in CodeMin..CodeMax : n <= k /\ AltsAt(s, p + n, tails) # {}}
    IN  IF LitAt(s, i, prefix) /\ ns # {}
        THEN [group1 |-> SubSeq(s, p, p + Max(ns) - 1)]
        ELSE None

\* prefix [: fw_colon \s]* ([A-Za-z0-9]{4,8})
CodeAfter(s, i, prefix) ==
    LET p == i + Len(prefix)
        skip == RunLen(s, p, ColonOrSpace, FALSE)
        ms == {m \in 0..skip : RunLen(s, p + m, AlphaNum, FALSE) >= CodeMin}
    IN  IF LitAt(s, i, prefix) /\ ms # {}
        THEN LET q == p + Max(ms)
                 k == RunLen(s, q, AlphaNum, FALSE)
                 n == IF k > CodeMax THEN CodeMax ELSE k
             IN  [group1 |-> SubSeq(s, q, q + n - 1)]
        ELSE None

code_pattern1(s, i) ==
    CodeBetween(s, i, <<"qing", "ping">>, << <<"qian", "wang">>, <<"ling", "qu">> >>)
code_pattern2(s, i) == CodeAfter(s, i, <<"qu", "jian", "ma">>)
code_pattern3(s, i) == CodeAfter(s, i, <<"yan", "zheng", "ma">>)
code_pattern4(s, i) == CodeBetween(s, i, <<"ping">>, << <<"qu", "jian">> >>)

\* re.search(code_patterns[k], s)
code_search(k, s) ==
    CASE k = 1 -> re_search([i \in 1..Len(s) |-> code_pattern1(s, i)])
      [] k = 2 -> re_search([i \in 1..Len(s) |-> code_pattern2(s, i)])
      [] k = 3 -> re_search([i \in 1..Len(s) |-> code_pattern3(s, i)])
      [] k = 4 -> re_search([i \in 1..Len(s) |-> code_pattern4(s, i)])

NumCodePatterns == 4

tracking_match(s) == re_search([i \in 1..Len(s) |-> tracking_pattern(s, i)])
location_match(s) == re_search([i \in 1..Len(s) |-> location_pattern(s, i)])

\* code_match without the break: the last pattern that matches wins
code_match_no_break(s) ==
    LET hits == {k \in 1..NumCodePatterns : code_search(k, s) # None}
    IN  IF hits = {} THEN None ELSE code_search(Max(hits), s)

\* the loop over code_patterns: the first pattern that matches, then break
code_match(s) ==
    LET hits == {k \in 1..NumCodePatterns : code_search(k, s) # None}
    IN  IF hits = {} THEN None ELSE code_search(Min(hits), s)

\* parse_sms with the code rule nested under the location rule
parse_sms_dependent(sms_content) ==
    IF sms_content = EmptyStr THEN None
    ELSE LET r0 == EmptyDict
             tm == tracking_match(sms_content)
             r1 == IF tm # None THEN Put(r0, "tracking_id", tm.group1) ELSE r0
             lm == location_match(sms_content)
             r2 == IF lm # None THEN Put(r1, "pickup_location", strip(lm.group1)) ELSE r1
             cm == code_match(sms_content)
             r3 == IF lm # None /\ cm # None THEN Put(r2, "pickup_code", cm.group1) ELSE r2
         IN  IF r3 # EmptyDict THEN r3 ELSE None

parse_sms(sms_content) ==
    IF sms_content = EmptyStr THEN None
    ELSE LET r0 == EmptyDict
             tm == tracking_match(sms_content)
             r1 == IF tm # None THEN Put(r0, "tracking_id", tm.group1) ELSE r0
             lm == location_match(sms_content)
             r2 == IF lm # None THEN Put(r1, "pickup_location", strip(lm.group1)) ELSE r1
             cm == code_match(sms_content)
             r3 == IF cm # None THEN Put(r2, "pickup_code", cm.group1) ELSE r2
         IN  IF r3 # EmptyDict THEN r3 ELSE None

-----------------------------------------------------------------------------
(* Inputs of the extractor: messages assembled from up to MaxSegs segments *)

Segments ==
    << <<"qing", "ping">>,
       <<"6", "A", "2", "8">>,
       <<"qian", "wang">>,
       <<"qu", "jian", "ma">>,
       <<"z", "0", "0", "2", "6">>,
       <<":", " ">>,
       <<"dong">>,
       <<"fw_comma">>,
       <<"kuai", "di", "fw_colon", "*">>,
       <<"kuai", "di", "zhan">>,
       <<"yi3", "dao", " ">>,
       <<"qing", "ping", "A", "A", "0", "0", "ling", "qu">>,
       <<"qu", "jian", "ma", ":", "2", "2", "6", "6">>,
       <<"yan", "zheng", "ma", "8", "8", "8", "8">> >>

RECURSIVE Concat(_)
Concat(ss) == IF ss = << >> THEN << >> ELSE Head(ss) \o Concat(Tail(ss))

Inputs ==
    {Concat([j \in DOMAIN f |-> Segments[f[j]]]) :
        f \in UNION {[1..n -> 1..Len(Segments)] : n \in 0..MaxSegs}}

-----------------------------------------------------------------------------
(* The extractor run on one message *)

InitParse ==
    /\ sms \in Inputs
    /\ parsed = NotRun
    /\ variant = "ephemeral"
    /\ packages = << >>
    /\ next_id = 1
    /\ now = 0
    /\ last = [op |-> "init"]
    /\ marked = {}
    /\ issued = {}
    /\ returned = {}

Parse ==
    /\ parsed = NotRun
    /\ parsed' = parse_sms(sms)
    /\ UNCHANGED <<variant, packages, next_id, now, last, marked, issued, returned, sms>>

NextParse == Parse

SpecParse == InitParse /\ [][NextParse]_vars

-----------------------------------------------------------------------------
(* The record stores *)

PENDING == "dai_ling_qu"
COLLECTED == "yi_ling_qu"

\* the record add_package builds from the extracted fields; added_time is
\* the clock in seconds (strftime '%Y-%m-%d %H:%M:%S' is fixed-width, so the
\* text orders as the seconds do)
NewPackage(id, data, t) ==
    [id |-> id,
     tracking_id |-> Get(data, "tracking_id", EmptyStr),
     pickup_code |-> Get(data, "pickup_code", EmptyStr),
     pickup_location |-> Get(data, "pickup_location", EmptyStr),
     status |-> PENDING,
     added_time |-> t]

\* add_package that forgets to advance next_id
add_package_session_no_advance(pk, nid, data, t) ==
    [packages |-> Append(pk, NewPackage(nid, data, t)),
     next_id |-> nid,
     ret |-> nid]

\* session.py add_package: append, return next_id, advance next_id
add_package_session(pk, nid, data, t) ==
    [packages |-> Append(pk, NewPackage(nid, data, t)),
     next_id |-> nid + 1,
     ret |-> nid]

\* complete.py add_package: INSERT with an AUTOINCREMENT key, return lastrowid
add_package_complete(pk, nid, data, t) ==
    LET rowid == Max({nid - 1} \cup {pk[i].id : i \in 1..Len(pk)}) + 1
    IN  [packages |-> Append(pk, NewPackage(rowid, data, t)),
         next_id |-> rowid + 1,
         ret |-> rowid]

add_package(v, pk, nid, data, t) ==
    IF v = "durable" THEN add_package_complete(pk, nid, data, t)
    ELSE add_package_session(pk, nid, data, t)

\* the subsequence of pk at the increasing positions idx
RECURSIVE Pick(_, _)
Pick(pk, idx) ==
    IF idx = {} THEN << >>
    ELSE <<pk[Min(idx)]>> \o Pick(pk, idx \ {Min(idx)})

\* session.py get_pending_packages: the pending records in list order
get_pending_packages_session(pk) ==
    Pick(pk, {i \in 1..Len(pk) : pk[i].status = PENDING})

\* complete.py get_pending_packages: WHERE status = pending ORDER BY added_time
\* DESC; SQL leaves the order of rows with equal added_time open, so every
\* order of them is a possible result
get_pending_packages_complete(pk) ==
    LET idx == {i \in 1..Len(pk) : pk[i].status = PENDING}
        n == Cardinality(idx)
        orders == {f \in [1..n -> idx] :
                     /\ \A a, b \in 1..n : a # b => f[a] # f[b]
                     /\ \A a \in 1..n - 1 :
                          pk[f[a]].added_time >= pk[f[a + 1]].added_time}
    IN  {[a \in 1..n |-> pk[f[a]]] : f \in orders}

\* the results get_pending_packages can return
get_pending_packages(v, pk) ==
    IF v = "durable" THEN get_pending_packages_complete(pk)
    ELSE {get_pending_packages_session(pk)}

\* mark_as_picked_up that updates a record only while it is pending
mark_as_picked_up_session_pending_only(pk, package_id) ==
    LET hit == {i \in 1..Len(pk) : pk[i].id = package_id /\ pk[i].status = PENDING}
    IN  IF hit # {}
        THEN [packages |-> [pk EXCEPT ![Min(hit)] = Put(@, "status", COLLECTED)],
              ret |-> TRUE]
        ELSE [packages |-> pk, ret |-> FALSE]

\* mark_as_picked_up that flips the status of the record
mark_as_picked_up_session_toggle(pk, package_id) ==
    LET hit == {i \in 1..Len(pk) : pk[i].id = package_id}
        flip(s) == IF s = PENDING THEN COLLECTED ELSE PENDING
    IN  IF hit # {}
        THEN [packages |-> [pk EXCEPT ![Min(hit)] = Put(@, "status", flip(@.status))],
              ret |-> TRUE]
        ELSE [packages |-> pk, ret |-> FALSE]

\* mark_as_picked_up without the test on the id
mark_as_picked_up_session_all(pk, package_id) ==
    LET hit == {i \in 1..Len(pk) : pk[i].id = package_id}
    IN  [packages |-> [i \in 1..Len(pk) |-> Put(pk[i], "status", COLLECTED)],
         ret |-> hit # {}]

\* session.py mark_as_picked_up: the first record whose id matches is set to
\* collected; reading pkg['id'] of a record without that key raises KeyError
mark_as_picked_up_session(pk, package_id) ==
    LET hit == {i \in 1..Len(pk) : "id" \in DOMAIN pk[i] /\ pk[i].id = package_id}
        bad == {i \in 1..Len(pk) : "id" \notin DOMAIN pk[i]}
    IN  IF bad # {} /\ (hit = {} \/ Min(bad) < Min(hit))
        THEN [packages |-> pk, raised |-> "KeyError"]
        ELSE IF hit # {}
        THEN [packages |-> [pk EXCEPT ![Min(hit)] = Put(@, "status", COLLECTED)],
              ret |-> TRUE]
        ELSE [packages |-> pk, ret |-> FALSE]

\* complete.py mark_as_picked_up: UPDATE .. WHERE id = ?, return rowcount > 0
mark_as_picked_up_complete(pk, package_id) ==
    LET hit == {i \in 1..Len(pk) : pk[i].id = package_id}
    IN  [packages |-> [i \in 1..Len(pk) |->
                         IF i \in hit THEN Put(pk[i], "status", COLLECTED) ELSE pk[i]],
         ret |-> Cardinality(hit) > 0]

mark_as_picked_up(v, pk, package_id) ==
    IF v = "durable" THEN mark_as_picked_up_complete(pk, package_id)
    ELSE mark_as_picked_up_session(pk, package_id)

\* the import with next_id taken from the last record instead of the maximum
import_backup_last_id(pk, nid, doc) ==
    IF doc.kind = "malformed"
    THEN [packages |-> pk, next_id |-> nid, ret |-> "failed"]
    ELSE LET data == doc.data
         IN  IF data = << >>
             THEN [packages |-> data, next_id |-> nid, ret |-> "ok"]
             ELSE IF \E i \in 1..Len(data) : "id" \notin DOMAIN data[i]
             THEN [packages |-> data, next_id |-> nid, ret |-> "failed"]
             ELSE [packages |-> data,
                   next_id |-> data[Len(data)].id + 1,
                   ret |-> "ok"]

\* session.py main, import branch: json.load raises on malformed text; then
\* packages is assigned, and only then are the ids read
import_backup(pk, nid, doc) ==
    IF doc.kind = "malformed"
    THEN [packages |-> pk, next_id |-> nid, ret |-> "failed"]
    ELSE LET data == doc.data
         IN  IF data = << >>
             THEN [packages |-> data, next_id |-> nid, ret |-> "ok"]
             ELSE IF \E i \in 1..Len(data) : "id" \notin DOMAIN data[i]
             THEN [packages |-> data, next_id |-> nid, ret |-> "failed"]
             ELSE [packages |-> data,
                   next_id |-> Max({data[i].id : i \in 1..Len(data)}) + 1,
                   ret |-> "ok"]

\* session.py main, clear branch
clear_all(pk, nid) == [packages |-> << >>, next_id |-> 1]

-----------------------------------------------------------------------------
(* Inputs of the store operations *)

\* messages pasted into the text area: the documented example and a message
\* with no marker
SampleSms ==
    { <<"kuai", "di", ":", "*", "8", "2", "yi3", "dao", "dong", "kuai", "di", "zhan",
        "fw_comma", "qing", "ping", "6", "A", "2", "8", "qian", "wang", "ling", "qu">>,
      <<"dong", "dong">> }

\* parse_sms on each of them
ParsedSample == [m \in SampleSms |-> parse_sms(m)]

ImportedPackage(id) == NewPackage(id, EmptyDict, 0)

\* array elements of an uploaded backup: records, and an object without an id
ImportIds == {1, 3}

ImportElems ==
    {ImportedPackage(i) : i \in ImportIds}
        \cup {[tracking_id |-> EmptyStr, status |-> PENDING, added_time |-> 0]}

ImportDocs ==
    {[kind |-> "malformed"]}
        \cup {[kind |-> "array", data |-> d] :
                d \in UNION {[1..n -> ImportElems] : n \in 0..MaxImport}}

PackageIds == 1..MaxId + 1

-----------------------------------------------------------------------------
(* Operations *)

Init ==
    /\ variant \in {"durable", "ephemeral"}
    /\ packages = << >>
    /\ next_id = 1
    /\ now = 0
    /\ last = [op |-> "init"]
    /\ marked = {}
    /\ issued = {}
    /\ returned = {}
    /\ sms = EmptyStr
    /\ parsed = NotRun

\* a second passes
Tick ==
    /\ now < MaxTime
    /\ now' = now + 1
    /\ last' = [op |-> "tick"]
    /\ UNCHANGED <<variant, packages, next_id, marked, issued, returned, sms, parsed>>

\* main, add button: parse the message and store the record if it parsed
Add(m) ==
    LET parsed_data == ParsedSample[m]
        r == add_package(variant, packages, next_id, parsed_data, now)
    IN  /\ next_id <= MaxId
        /\ IF strip(m) # EmptyStr /\ parsed_data # None
           THEN /\ packages' = r.packages
                /\ next_id' = r.next_id
                /\ last' = [op |-> "add", ret |-> r.ret]
                /\ issued' = issued \cup {r.ret}
                /\ returned' = returned \cup {r.ret}
           ELSE /\ last' = [op |-> "add_failed"]
                /\ UNCHANGED <<packages, next_id, issued, returned>>
        /\ UNCHANGED <<variant, now, marked, sms, parsed>>

\* the statuses of the records that carry the id
StatusesOf(pk, package_id) ==
    {pk[i].status : i \in {j \in 1..Len(pk) :
                              "id" \in DOMAIN pk[j] /\ pk[j].id = package_id}}

\* mark_as_picked_up(package_id); last also notes what the call found: the
\* statuses of the matching records and whether an earlier call returned True
Mark(package_id) ==
    LET r == mark_as_picked_up(variant, packages, package_id)
        call == [op |-> "mark", id |-> package_id,
                 found |-> StatusesOf(packages, package_id),
                 again |-> package_id \in marked]
    IN  /\ packages' = r.packages
        /\ IF "ret" \in DOMAIN r
           THEN /\ last' = Put(call, "ret", r.ret)
                /\ marked' = IF r.ret THEN marked \cup {package_id} ELSE marked
           ELSE /\ last' = Put(call, "raised", r.raised)
                /\ UNCHANGED marked
        /\ UNCHANGED <<variant, next_id, now, issued, returned, sms, parsed>>

\* get_pending_packages()
List ==
    /\ \E result \in get_pending_packages(variant, packages) :
          last' = [op |-> "list", ret |-> result]
    /\ UNCHANGED <<variant, packages, next_id, now, marked, issued, returned, sms, parsed>>

\* main, import branch (session.py only)
Import(doc) ==
    LET r == import_backup(packages, next_id, doc)
    IN  /\ variant = "ephemeral"
        /\ packages' = r.packages
        /\ next_id' = r.next_id
        /\ last' = [op |-> "import", ret |-> r.ret]
        /\ marked' = IF r.packages = packages THEN marked ELSE {}
        /\ issued' = IF r.packages = packages THEN issued ELSE {}
        /\ UNCHANGED <<variant, now, returned, sms, parsed>>

\* main, clear branch (session.py only)
Clear ==
    LET r == clear_all(packages, next_id)
    IN  /\ variant = "ephemeral"
        /\ packages' = r.packages
        /\ next_id' = r.next_id
        /\ last' = [op |-> "clear"]
        /\ marked' = {}
        /\ issued' = {}
        /\ UNCHANGED <<variant, now, returned, sms, parsed>>

AddAny == \E m \in SampleSms : Add(m)
MarkAny == \E package_id \in PackageIds : Mark(package_id)
ImportAny == \E doc \in ImportDocs : Import(doc)

\* create, mark_collected and list_pending only
NextLifecycle == Tick \/ AddAny \/ MarkAny \/ List

SpecLifecycle == Init /\ [][NextLifecycle]_vars

\* every operation of both programs
Next == Tick \/ AddAny \/ MarkAny \/ List \/ ImportAny \/ Clear

Spec == Init /\ [][Next]_vars

-----------------------------------------------------------------------------
(* What it means for a rule to match, stated without the search order *)

AllIn(s, from, n, cls) == \A j \in from..from + n - 1 : j <= Len(s) /\ s[j] \in cls
NoneIn(s, from, n, cls) == \A j \in from..from + n - 1 : j <= Len(s) /\ s[j] \notin cls

TrackingRuleMatches(s) ==
    \E i \in 1..Len(s) :
        /\ LitAt(s, i, <<"kuai", "di">>)
        /\ AllIn(s, i + 2, 1, Colons)
        /\ \/ AllIn(s, i + 3, 1, Digits)
           \/ AllIn(s, i + 3, 1, {"*"}) /\ AllIn(s, i + 4, 1, Digits)

LocationRuleMatches(s) ==
    \E i \in 1..Len(s), m \in 1..Len(LocationMarkers) :
        /\ LitAt(s, i, LocationMarkers[m])
        /\ \E n \in 1..Len(s), f \in 1..Len(LocationSuffixes) :
              /\ NoneIn(s, i + Len(LocationMarkers[m]), n, LocationExcluded)
              /\ LitAt(s, i + Len(LocationMarkers[m]) + n, LocationSuffixes[f])

BetweenMatches(s, prefix, tails) ==
    \E i \in 1..Len(s) :
        /\ LitAt(s, i, prefix)
        /\ \E n \in CodeMin..CodeMax, e \in 1..Len(tails) :
              /\ AllIn(s, i + Len(prefix), n, AlphaNum)
              /\ LitAt(s, i + Len(prefix) + n, tails[e])

AfterMatches(s, prefix) ==
    \E i \in 1..Len(s) :
        /\ LitAt(s, i, prefix)
        /\ \E m \in 0..Len(s) :
              /\ AllIn(s, i + Len(prefix), m, ColonOrSpace)
              /\ AllIn(s, i + Len(prefix) + m, CodeMin, AlphaNum)

CodeRuleMatches(k, s) ==
    CASE k = 1 -> BetweenMatches(s, <<"qing", "ping">>,
                                 << <<"qian", "wang">>, <<"ling", "qu">> >>)
      [] k = 2 -> AfterMatches(s, <<"qu", "jian", "ma">>)
      [] k = 3 -> AfterMatches(s, <<"yan", "zheng", "ma">>)
      [] k = 4 -> BetweenMatches(s, <<"ping">>, << <<"qu", "jian">> >>)

MatchedKeys(s) ==
    {k \in {"tracking_id"} : TrackingRuleMatches(s)}
        \cup {k \in {"pickup_location"} : LocationRuleMatches(s)}
        \cup {k \in {"pickup_code"} : \E c \in 1..NumCodePatterns : CodeRuleMatches(c, s)}

-----------------------------------------------------------------------------
(* Claims about the extractor, checked under SpecParse *)

\* C9: parse_sms returns None exactly when none of the three rules matches
\* the input (the empty input included); otherwise it returns a mapping
\* whose keys are exactly the fields whose rule matched, and every value in
\* it is a non-empty string.
C9_Aggregation ==
    parsed # NotRun =>
        /\ (parsed = None) <=> (MatchedKeys(sms) = {})
        /\ parsed # None =>
              /\ DOMAIN parsed = MatchedKeys(sms)
              /\ \A k \in DOMAIN parsed : parsed[k] # EmptyStr

\* a partial success: the location and the code were found, the tracking id not
C9_Witness ==
    /\ parsed # NotRun
    /\ parsed # None
    /\ DOMAIN parsed = {"pickup_location", "pickup_code"}

\* C10: the pickup code is the capture of the lowest-numbered pattern that
\* matches; in particular, when pattern 1 and pattern 2 both match, wherever
\* the two matches lie, it is the capture of pattern 1.
C10_FirstPatternWins ==
    parsed # NotRun =>
        LET hits == {k \in 1..NumCodePatterns : CodeRuleMatches(k, sms)}
        IN  /\ hits # {} =>
                  /\ parsed # None
                  /\ "pickup_code" \in DOMAIN parsed
                  /\ parsed.pickup_code = code_search(Min(hits), sms).group1
            /\ {1, 2} \subseteq hits =>
                  parsed.pickup_code = code_search(1, sms).group1

\* patterns 1 and 2 both match, pattern 2 earlier in the text and with
\* another capture, and the code returned is the one of pattern 1
C10_Witness ==
    /\ parsed # NotRun
    /\ CodeRuleMatches(1, sms)
    /\ CodeRuleMatches(2, sms)
    /\ LitAt(sms, 1, <<"qu", "jian", "ma">>)
    /\ code_search(2, sms).group1 # code_search(1, sms).group1
    /\ parsed.pickup_code = code_search(1, sms).group1

-----------------------------------------------------------------------------
(* Claims about create, mark_collected and list_pending, checked under     *)
(* SpecLifecycle                                                           *)

\* C1 as stated: once mark_collected(id) has returned true, every later
\* mark_collected(id) returns false.
C1_SecondCallReturnsFalse ==
    (last.op = "mark" /\ last.again) => ("ret" \in DOMAIN last /\ last.ret = FALSE)

\* C1 as amended: once mark_collected(id) has returned true, every later
\* mark_collected(id), with only create, mark_collected and list_pending
\* operations in between, returns true again and the record stays collected.
C1_SecondCallReturnsTrue ==
    (last.op = "mark" /\ last.again) =>
        /\ "ret" \in DOMAIN last
        /\ last.ret = TRUE
        /\ StatusesOf(packages, last.id) = {COLLECTED}

\* mark_collected was called on an id it had already collected
C1_Witness ==
    /\ last.op = "mark"
    /\ last.again
    /\ last.found = {COLLECTED}

\* the pending records by added_time descending, later insertion first
\* among equal times
ExpectedPending(pk) ==
    LET idx == {i \in 1..Len(pk) : pk[i].status = PENDING}
        n == Cardinality(idx)
        before(i, j) ==
            \/ pk[i].added_time > pk[j].added_time
            \/ pk[i].added_time = pk[j].added_time /\ i > j
        f == CHOOSE g \in [1..n -> idx] :
                \A a, b \in 1..n : a < b => before(g[a], g[b])
    IN  [a \in 1..n |-> pk[f[a]]]

\* C2 as stated: list_pending returns exactly the pending records, by
\* added_time descending and, among equal times, the later-inserted first,
\* in both stores.
C2_ListNewestFirst ==
    last.op = "list" => last.ret = ExpectedPending(packages)

\* C6: mark_collected(id) on a pending record returns true, and from then
\* on, whatever create and mark_collected operations follow, no list_pending
\* result holds a record with that id.
C6_CollectedStaysCollected ==
    /\ (last.op = "mark" /\ PENDING \in last.found) =>
          ("ret" \in DOMAIN last /\ last.ret = TRUE /\ last.id \in marked)
    /\ \A result \in get_pending_packages(variant, packages) :
          \A i \in 1..Len(result) : result[i].id \notin marked
    /\ last.op = "list" => \A i \in 1..Len(last.ret) : last.ret[i].id \notin marked

\* a listing, taken after a record was collected and a later one created,
\* that shows the later record
C6_Witness ==
    /\ last.op = "list"
    /\ last.ret # << >>
    /\ \E id \in marked : \E i \in 1..Len(last.ret) : last.ret[i].id > id

FrameFields == {"id", "tracking_id", "pickup_code", "pickup_location", "added_time"}

\* one step of the store, seen from the records already in it
C8_FrameStep ==
    /\ Len(packages') >= Len(packages)
    /\ \A i \in 1..Len(packages) :
          /\ DOMAIN packages'[i] = DOMAIN packages[i]
          /\ \A k \in FrameFields : packages'[i][k] = packages[i][k]
    /\ last'.op = "mark" =>
          /\ Len(packages') = Len(packages)
          /\ \A i \in 1..Len(packages) :
                packages[i].id # last'.id => packages'[i] = packages[i]
    /\ last'.op = "add" =>
          /\ Len(packages') = Len(packages) + 1
          /\ SubSeq(packages', 1, Len(packages)) = packages

\* C8: every record keeps its id, tracking_id, pickup_code, pickup_location
\* and added_time; mark_collected(id) changes the status of the record with
\* that id and nothing else, and create changes no existing record.
C8_Frame == [][C8_FrameStep]_vars

\* a record was created after another had been collected
C8_Witness ==
    /\ last.op = "add"
    /\ Len(packages) >= 2
    /\ \E i \in 1..Len(packages) : packages[i].status = COLLECTED

-----------------------------------------------------------------------------
(* Claims about the ephemeral store's import and clear, checked under Spec *)

\* a step that is an import reported as failed changes nothing
C3_FailedImportStep ==
    (last'.op = "import" /\ last'.ret = "failed") =>
        (packages' = packages /\ next_id' = next_id)

\* C3 as stated: a failed import leaves the record sequence and the next-id
\* counter exactly as they were.
C3_FailedImportKeepsState == [][C3_FailedImportStep]_vars

\* a step that is a create returns an id no create has returned before
C4_NeverReusedStep ==
    last'.op = "add" => last'.ret \notin returned

\* C4 as stated: no id returned by create is ever returned again by a later
\* create, even after a bulk-clear.
C4_IdsNeverReused == [][C4_NeverReusedStep]_vars

\* a create returns more than the ids issued since the store was replaced
C4_IncreasingStep ==
    /\ last'.op = "add" => \A id \in issued : id < last'.ret
    /\ last'.op = "clear" => next_id' = 1

\* C4 as amended: create returns an id greater than every id create has
\* returned since the store was last replaced by a bulk-clear or an import;
\* a bulk-clear resets the counter to 1.
C4_IdsIncreaseBetweenClears == [][C4_IncreasingStep]_vars

\* two creates after a bulk-clear that followed earlier creates
C4_Witness ==
    /\ last.op = "add"
    /\ Cardinality(issued) >= 2
    /\ issued # returned

IdsOf(pk) == {pk[i].id : i \in 1..Len(pk)}

\* C5: after a successful import of a non-empty array of records the
\* next-id counter is the largest imported id plus one, so the next create
\* returns an id greater than every id in the store.
C5_ImportSetsNextId ==
    (last.op = "import" /\ last.ret = "ok" /\ packages # << >>) =>
        /\ next_id = Max(IdsOf(packages)) + 1
        /\ \A m \in SampleSms :
              ParsedSample[m] # None =>
                  \A id \in IdsOf(packages) :
                      id < add_package(variant, packages, next_id, ParsedSample[m], now).ret

\* an imported array whose largest id is not on its last record
C5_Witness ==
    /\ last.op = "import"
    /\ last.ret = "ok"
    /\ Len(packages) = 2
    /\ packages[1].id > packages[2].id

\* a step that is a mark_collected on an id no record carries
C7_UnknownIdStep ==
    (last'.op = "mark" /\ last'.found = {}) =>
        /\ "ret" \in DOMAIN last'
        /\ last'.ret = FALSE
        /\ packages' = packages
        /\ next_id' = next_id

\* C7 as stated: mark_collected(id) with an id no record carries returns
\* false, does not raise, and leaves the records and the next-id counter
\* unchanged.
C7_UnknownIdReturnsFalse == [][C7_UnknownIdStep]_vars

=============================================================================
